---- MODULE Spec2Model ----
(***************************************************************************)
(* Auxspace METER telemetry (src/code.py): the runtime of main(), from     *)
(* peripheral initialization to the endless tick loop                      *)
(*     server.poll(); handle_sd(); handle_dps310(); handle_bno08x()        *)
(* with the leveled logger, the three well-known files on the MicroSD      *)
(* card, the card-detect and delete pins, and the HTTP handlers.           *)
(*                                                                         *)
(* One action models one call of main()'s body.  Inside an action the      *)
(* Python statements run in sequence over an execution record              *)
(*   x = [files, ev, n, flt, exc, conn, line, data]                        *)
(* files: the card's files; ev: the trace of what the call did; n: the     *)
(* primitive operations (driver or I/O calls) executed so far in the call; *)
(* flt: the primitive that fails in this call (0: none); exc: the          *)
(* exception propagating ("none" when there is none); conn: what was sent  *)
(* on the HTTP connection; line, data: the values last returned by         *)
(* to_influx_line and get_data.  An operator that takes x and returns x    *)
(* is a statement; nesting is sequencing.                                  *)
(***************************************************************************)
EXTENDS Integers, Sequences, FiniteSets, TLC

\* ---------------------------------------------------------------- bounds
MaxTicks == 2
MaxTime == 1
MaxVal == 0
MaxFaults == 1
MaxInitPulls == 0

\* ------------------------------------------------------ program constants
_SD_ROOT == "/sd"
DATAPATH == "/sd/data.txt"
LOGPATH == "/sd/run.log"
ERRPATH == "/sd/error.log"
Paths == {LOGPATH, ERRPATH, DATAPATH}

DEBUG == 0
INFO == 1
WARN == 2
ERROR == 3

BNO08X == 0
DPS310 == 1

CRLF == "\r\n"

\* LogLevel.get_name, without the Warn record it logs for an unknown level
\* (log, below, emits that record).
LogLevel_get_name(level) ==
  IF level = DEBUG THEN "DEBUG"
  ELSE IF level = ERROR THEN "ERROR"
  ELSE IF level = WARN THEN "WARN"
  ELSE IF level = INFO THEN "INFO"
  ELSE "UNKNOWN"

\* SensorType.get_name, without the Error record of the unknown type.
SensorType_get_name(sensor_type) ==
  IF sensor_type = BNO08X THEN "bno08x"
  ELSE IF sensor_type = DPS310 THEN "dps310"
  ELSE "unknown"

VARIABLES
  pc,        \* the statement of main() that runs next
  mode,      \* "Initializing", "Serving" or "Crashed" (an exception left main)
  cd,        \* MICROSD_CD_PIN.value: a card is inserted
  del,       \* MICROSD_DEL_PIN.value: the delete button is pressed
  UART,      \* busio.UART(...) succeeded at import
  now,       \* int(time.monotonic() * 1_000)
  files,     \* path -> [exists, lines]
  mounted,   \* storage.mount(vfs, "/sd") was done
  listening, \* server.start(ip, NET_PORT) succeeded
  conn,      \* what the HTTP handler of this tick sent on request.connection
  exc,       \* the exception main()'s try caught in this tick, else "none"
  fatal,     \* the exception that left main(), else "none"
  \* what the program did, kept for the properties
  ev,        \* the trace of the call of main()'s body that ran last
  inits,     \* the initialization steps completed, in order
  steps,     \* the calls of the current tick, in order
  errs,      \* Error records logged in the current tick
  appended,  \* measurements of the lines appended to data.txt in the tick
  absentSeen,\* handle_sd read the card-detect pin deasserted in this tick
  ticks,     \* ticks started
  held,      \* calls of handle_sd that read the delete pin asserted since it
             \* last changed
  passes,    \* deletion passes started since the delete pin last changed
  \* the bounded environment
  injected,  \* faults injected so far
  initPulls, \* times the card was pulled between the mount and the first tick
  \* the encoder taken on its own
  encIn,     \* the SensorData that to_influx_line is called on
  encOut     \* the string it returned, "" before the call

pins == <<cd, del, UART, now>>
tsum == <<conn, exc, steps, errs, appended, absentSeen>>
counts == <<ticks, held, passes>>
enc == <<encIn, encOut>>
prog == <<pc, mode, pins, files, mounted, listening, fatal, ev, tsum, inits, counts,
          injected, initPulls>>
vars == <<prog, enc>>

\* ------------------------------------------------------------ trace items
NoLine == [m |-> "", f |-> <<>>, t |-> 0, eol |-> ""]
Ev(k, a, b) == [k |-> k, a |-> a, b |-> b, msg |-> <<>>, l |-> NoLine]
EvLog(lvl, msg, l) == [k |-> "log", a |-> lvl, b |-> "", msg |-> msg, l |-> l]

NoFile == [exists |-> FALSE, lines |-> <<>>]

\* ------------------------------------------------- the execution record
Begin(flt) ==
  [files |-> files, ev |-> <<>>, n |-> 0, flt |-> flt, exc |-> "none",
   conn |-> <<>>, line |-> NoLine, data |-> <<>>]

Ok(x) == x.exc = "none"
\* the next primitive is the one that fails
Faulty(x) == x.n + 1 = x.flt
Did(x) == [x EXCEPT !.n = @ + 1]
Emit(x, e) == [x EXCEPT !.ev = Append(@, e)]
Raise(x, what) == [x EXCEPT !.exc = what, !.ev = Append(@, Ev("raise", what, ""))]
\* an except clause that handles the exception
Catch(x) == [x EXCEPT !.exc = "none"]
FaultHit(x) == x.flt # 0 /\ x.n >= x.flt

\* A primitive that is not a file or sensor access (a bus, radio or socket
\* call): it fails only when the fault is injected there.
Prim(x, what, err) ==
  IF ~Ok(x) THEN x
  ELSE IF Faulty(x) THEN Raise(Emit(Did(x), Ev(what, "", "fail")), err)
  ELSE Emit(Did(x), Ev(what, "", "ok"))

\* ------------------------------------------------------------------ log
\* print(str_message), line 282: the console sink
Console(x, lvl, msg, l) == Emit(x, EvLog(lvl, msg, l))

\* UART.write(str_message + "\r\n"), lines 284-285: outside every try
UartWrite(x) ==
  IF ~UART THEN x
  ELSE IF Faulty(x) THEN Raise(Emit(Did(x), Ev("uart", "write", "fail")), "OSError")
  ELSE Emit(Did(x), Ev("uart", "write", "ok"))

\* open(logfile_path, "a") failed, lines 296-301: every exception is caught
\* and reported with print only
LogOpenFailed(x, path) ==
  Emit(Catch(Raise(Emit(Did(x), Ev("open", path, IF ~cd THEN "absent" ELSE "ioerr")),
                   "OSError")),
       Ev("print", path, "could not write"))

\* an open that truncates the file (mode "w")
Opened_trunc(x, path) ==
  [Emit(Did(x), Ev("open", path, "ok")) EXCEPT
     !.files[path] = [exists |-> TRUE, lines |-> <<>>]]

\* open(path, "a") succeeded: the file exists from now on
Opened(x, path) ==
  [Emit(Did(x), Ev("open", path, "ok")) EXCEPT !.files[path].exists = TRUE]

\* logfile.write(str_message + "\r\n") and the end of the with block, line 295
LogWrite(x, path, line) ==
  IF Faulty(x)
  THEN Emit(Catch(Emit(Raise(Emit(Did(x), Ev("write", path, "ioerr")), "OSError"),
                       Ev("close", path, ""))),
            Ev("print", path, "could not write"))
  ELSE Emit([Emit(Did(x), Ev("write", path, "ok"))
               EXCEPT !.files[path].lines = Append(@, line)],
            Ev("close", path, ""))

\* lines 293-301
LogToFile(x, path, line) ==
  IF ~cd \/ Faulty(x) THEN LogOpenFailed(x, path)
  ELSE LogWrite(Opened(x, path), path, line)

\* the file an Info/Warn/Error record goes to, lines 270, 290-291
\* a routing that ignores the level
LogfilePath_noroute(level) == LOGPATH

LogfilePath(level) == IF level = ERROR THEN ERRPATH ELSE LOGPATH

\* lines 287-301, after the console and the serial sink.  The line is kept
\* in the file by its level.
LogRoute(x, level) ==
  IF ~Ok(x) THEN Emit(x, Ev("log raised", LogLevel_get_name(level), ""))
  ELSE IF level = DEBUG THEN x
  ELSE LogToFile(x, LogfilePath(level),
                 [lvl |-> LogLevel_get_name(level), eol |-> CRLF])

\* log(level, *message) from the format on, lines 280-301
LogBody(x, level, msg, l) ==
  IF ~Ok(x) THEN x
  ELSE LogRoute(UartWrite(Console(x, LogLevel_get_name(level), msg, l)), level)

\* log(level, *message), lines 262-301, with the record LogLevel.get_name
\* logs for an unknown level, line 136.  l is the data line the message
\* quotes.  A call made while an exception is propagating does not happen.
LogL(x, level, msg, l) ==
  IF level \in {DEBUG, INFO, WARN, ERROR} THEN LogBody(x, level, msg, l)
  ELSE LogBody(LogBody(x, WARN, <<"Log level", "is unknown.">>, NoLine), level, msg, l)

log(x, level, msg) == LogL(x, level, msg, NoLine)

\* ------------------------------------------------------- the environment
\* The card is inserted or pulled.  After the mount, a card pulled during
\* initialization counts against MaxInitPulls.  A change between two ticks
\* is a change before server.poll().
InitPull == mode = "Initializing" /\ mounted /\ cd

CardToggle ==
  /\ pc \notin {"tick_end", "terminated"}
  /\ InitPull => initPulls < MaxInitPulls
  /\ cd' = ~cd
  /\ initPulls' = IF InitPull THEN initPulls + 1 ELSE initPulls
  /\ UNCHANGED <<enc, pc, mode, del, UART, now, files, mounted, listening, fatal, ev,
                 tsum, inits, counts, injected>>

\* The delete button is pressed or released.  Only handle_sd reads the pin:
\* a change is seen as a change before that read.
DelToggle ==
  /\ pc = "handle_sd"
  /\ del' = ~del
  /\ held' = 0
  /\ passes' = 0
  /\ UNCHANGED <<enc, pc, mode, cd, UART, now, files, mounted, listening, fatal, ev,
                 tsum, inits, ticks, injected, initPulls>>

\* time.monotonic() advances.  Only _handle_sensor reads the clock.
Advance ==
  /\ pc \in {"handle_dps310", "handle_bno08x"}
  /\ now < MaxTime
  /\ now' = now + 1
  /\ UNCHANGED <<enc, pc, mode, cd, del, UART, files, mounted, listening, fatal, ev,
                 tsum, inits, counts, injected, initPulls>>

\* ------------------------------------------------------ running one call
Has(trace, k, b) == \E i \in 1..Len(trace) : trace[i].k = k /\ trace[i].b = b

CanInject(flt) == flt = 0 \/ injected < MaxFaults

\* The state after an initialization step that ran to x: an exception that
\* leaves the step leaves main(), which has no try around it (lines 730-732).
AfterInit(x, step, next) ==
  /\ files' = x.files
  /\ ev' = x.ev
  /\ injected' = IF FaultHit(x) THEN injected + 1 ELSE injected
  /\ fatal' = x.exc
  /\ inits' = IF Ok(x) THEN Append(inits, step) ELSE inits
  /\ pc' = IF Ok(x) THEN next ELSE "terminated"
  /\ mode' = IF ~Ok(x) THEN "Crashed" ELSE IF next = "poll" THEN "Serving" ELSE mode
  /\ UNCHANGED <<enc, pins, tsum, counts, initPulls>>

\* --------------------------------------------------------- initialization
\* init_spi, lines 378-386
init_spi(flt) == Prim(Begin(flt), "busio.SPI", "ValueError")

InitSpi ==
  /\ pc = "init_spi"
  /\ \E flt \in 0..init_spi(0).n :
       CanInject(flt) /\ AfterInit(init_spi(flt), "init_spi", "init_microsd")
  /\ UNCHANGED <<mounted, listening>>

\* init_microsd up to the spin-wait, lines 400-409
InitMicrosd ==
  /\ pc = "init_microsd"
  /\ pc' = "wait_card"
  /\ ev' = IF cd THEN <<>> ELSE <<Ev("print", "", "insert a card")>>
  /\ UNCHANGED <<enc, mode, pins, files, mounted, listening, fatal, tsum, inits, counts,
                 injected, initPulls>>

\* _print_directory(_SD_ROOT), lines 311-341: os.listdir, then os.stat and a
\* print per file
RECURSIVE StatAll(_, _)
StatAll(x, todo) ==
  IF todo = {} \/ ~Ok(x) THEN x
  ELSE StatAll(Prim(x, "os.stat", "OSError"), todo \ {CHOOSE q \in todo : TRUE})

Listed(x) == StatAll(x, {p \in Paths : x.files[p].exists})

_print_directory(x) == Listed(Prim(x, "os.listdir", "OSError"))

\* init_microsd after the spin-wait, lines 410-427: `while not
\* MICROSD_CD_PIN.value: pass` is left when the card is there
init_microsd(flt) ==
  _print_directory(
    Prim(Prim(Prim(Begin(flt), "adafruit_sdcard.SDCard", "OSError"),
              "storage.VfsFat", "OSError"),
         "storage.mount", "OSError"))

\* a mount that does not wait for the card
WaitCard_nowait ==
  /\ pc = "wait_card"
  /\ \E flt \in 0..init_microsd(0).n :
       /\ CanInject(flt)
       /\ AfterInit(init_microsd(flt), "init_microsd", "init_access_point")
       /\ mounted' = Has(init_microsd(flt).ev, "storage.mount", "ok")
  /\ UNCHANGED listening

WaitCard ==
  /\ pc = "wait_card"
  /\ cd
  /\ \E flt \in 0..init_microsd(0).n :
       /\ CanInject(flt)
       /\ AfterInit(init_microsd(flt), "init_microsd", "init_access_point")
       /\ mounted' = Has(init_microsd(flt).ev, "storage.mount", "ok")
  /\ UNCHANGED listening

\* init_access_point, lines 344-350
init_access_point(flt) ==
  log(log(Prim(Begin(flt), "wifi.radio.start_ap", "RuntimeError"),
          INFO, <<"Access point created.">>),
      DEBUG, <<"SSID, password">>)

InitAccessPoint ==
  /\ pc = "init_access_point"
  /\ \E flt \in 0..init_access_point(0).n :
       CanInject(flt)
       /\ AfterInit(init_access_point(flt), "init_access_point", "init_i2c")
  /\ UNCHANGED <<mounted, listening>>

\* init_i2c, lines 353-375.  `finally: i2c.unlock()` catches nothing: a
\* failed scan leaves the function.
init_i2c(flt) ==
  log(Prim(Prim(log(Begin(flt), INFO, <<"Initializing the I2C bus ...">>),
                "busio.I2C", "RuntimeError"),
           "i2c.scan", "OSError"),
      INFO, <<"I2C addresses found">>)

InitI2c ==
  /\ pc = "init_i2c"
  /\ \E flt \in 0..init_i2c(0).n :
       CanInject(flt) /\ AfterInit(init_i2c(flt), "init_i2c", "init_bno08x")
  /\ UNCHANGED <<mounted, listening>>

\* init_bno08x, lines 446-464
init_bno08x(flt) ==
  log(Prim(Prim(log(Begin(flt), INFO, <<"Initializing BNO08x sensor ...">>),
                "BNO08X_I2C", "RuntimeError"),
           "bno.enable_feature", "RuntimeError"),
      INFO, <<"Done.">>)

InitBno08x ==
  /\ pc = "init_bno08x"
  /\ \E flt \in 0..init_bno08x(0).n :
       CanInject(flt) /\ AfterInit(init_bno08x(flt), "init_bno08x", "init_dps310")
  /\ UNCHANGED <<mounted, listening>>

\* init_dps310, lines 467-480, and the end of _init_peripherals, lines 567-572
init_dps310(flt) ==
  log(log(Prim(log(Begin(flt), INFO, <<"Initializing DPS310 sensor ...">>),
               "DPS310", "RuntimeError"),
          INFO, <<"Done.">>),
      INFO, <<"Peripheral initialization complete.">>)

InitDps310 ==
  /\ pc = "init_dps310"
  /\ \E flt \in 0..init_dps310(0).n :
       CanInject(flt) /\ AfterInit(init_dps310(flt), "init_dps310", "init_webserver")
  /\ UNCHANGED <<mounted, listening>>

\* _init_webserver, lines 641-708: the routes are registered, nothing is bound
_init_webserver(flt) ==
  Prim(log(Begin(flt), INFO, <<"Starting server..">>), "Server", "RuntimeError")

InitWebserver ==
  /\ pc = "init_webserver"
  /\ \E flt \in 0.._init_webserver(0).n :
       CanInject(flt)
       /\ AfterInit(_init_webserver(flt), "init_webserver", "server_start")
  /\ UNCHANGED <<mounted, listening>>

\* main, lines 738-739: the except clause of the try around server.start
StartFailed(x) ==
  IF Ok(x) THEN x
  ELSE log(Catch(x), ERROR, <<"Unexpected Error occured in main function:", x.exc>>)

\* main, lines 734-739: server.start in a try whose except logs and goes on
server_start(flt) ==
  StartFailed(log(Prim(Begin(flt), "server.start", "OSError"),
                  INFO, <<"Serving default WEBPAGE">>))

\* main enters `while True` whether or not server.start succeeded
ServerStart ==
  /\ pc = "server_start"
  /\ \E flt \in 0..server_start(0).n :
       /\ CanInject(flt)
       /\ AfterInit(server_start(flt), "server_start", "poll")
       /\ listening' = Has(server_start(flt).ev, "server.start", "ok")
  /\ UNCHANGED mounted

\* ------------------------------------------------------------ the sensors
\* what bno08x.acceleration returns: a tuple, or nothing (falsy)
NoAccel == <<>>
AccelSamples == {<<a, a + 1, a + 2>> : a \in 0..MaxVal}
AccelOutcomes == AccelSamples \cup {NoAccel}
\* what dps310.pressure and dps310.temperature return
DpsSamples == {<<v + 1000, v + 20>> : v \in 0..MaxVal}

\* data_dict of Bno08xData.get_data as constructed, lines 179-183
BnoZeros == <<<<"accel_x", 0>>, <<"accel_y", 0>>, <<"accel_z", 0>>>>

\* Bno08xData.get_data, lines 190-192: the else branch
BnoFallback(x) ==
  IF Ok(x) THEN Emit([x EXCEPT !.data = BnoZeros], Ev("get_data", "bno08x", "fallback"))
  ELSE Emit(x, Ev("get_data", "bno08x", "raised"))

\* Bno08xData.get_data, lines 185-192, after the read of the driver
BnoRead(x, sample) ==
  IF ~Ok(x) THEN Emit(x, Ev("get_data", "bno08x", "raised"))
  ELSE IF sample = NoAccel
  THEN BnoFallback(log(x, ERROR, <<"Could not get acceleration data from bno08x.">>))
  ELSE Emit([x EXCEPT !.data = <<<<"accel_x", sample[1]>>, <<"accel_y", sample[2]>>,
                                 <<"accel_z", sample[3]>>>>],
            Ev("get_data", "bno08x", "returned"))

\* Bno08xData.get_data, lines 178-192
Bno08xData_get_data(x, sample) ==
  BnoRead(Prim(x, "bno08x.acceleration", "RuntimeError"), sample)

\* DPS310Data.get_data, lines 204-207, after the reads of the driver
DpsRead(x, sample) ==
  IF ~Ok(x) THEN Emit(x, Ev("get_data", "dps310", "raised"))
  ELSE Emit([x EXCEPT !.data = <<<<"pressure", sample[1]>>, <<"temp", sample[2]>>>>],
            Ev("get_data", "dps310", "returned"))

\* DPS310Data.get_data, lines 202-207
DPS310Data_get_data(x, sample) ==
  DpsRead(Prim(Prim(x, "dps310.pressure", "OSError"), "dps310.temperature", "OSError"),
          sample)

\* self.data.get_data(), line 239
get_data(x, sensor_type, sample) ==
  IF sensor_type = BNO08X THEN Bno08xData_get_data(x, sample)
  ELSE DPS310Data_get_data(x, sample)

\* SensorData.to_influx_line, lines 240-246: the measurement, the fields of
\* get_data() in the mapping's order, the timestamp; no newline
InfluxLine(x, measurement, timestamp) ==
  IF ~Ok(x) THEN x
  ELSE [x EXCEPT !.line = [m |-> measurement, f |-> x.data, t |-> timestamp, eol |-> ""]]

\* SensorData.to_influx_line, lines 227-246
to_influx_line(x, sensor_type, timestamp, sample) ==
  InfluxLine(get_data(x, sensor_type, sample), SensorType_get_name(sensor_type),
             timestamp)

\* data2datafile, line 443, and the end of the with block
D2Write(x, influx_line) ==
  IF ~Ok(x) THEN Emit(x, Ev("close", DATAPATH, ""))
  ELSE IF Faulty(x)
  THEN Emit(Raise(Emit(Did(x), Ev("write", DATAPATH, "ioerr")), "OSError"),
            Ev("close", DATAPATH, ""))
  ELSE Emit([Emit(Did(x), [Ev("write", DATAPATH, "ok") EXCEPT
                            !.l = [influx_line EXCEPT !.eol = CRLF]])
               EXCEPT !.files[DATAPATH].lines = Append(@, [influx_line EXCEPT !.eol = CRLF])],
            Ev("close", DATAPATH, ""))

\* data2datafile, lines 439-442: the Debug record carries a line that is
\* formatted again
D2Debug(x) == LogL(x, DEBUG, <<"Appending", "to", DATAPATH>>, x.line)

\* data2datafile, lines 438-443: open(DATAPATH, "a") and the with block
D2Open(x, sensor_type, timestamp, sample2) ==
  IF ~Ok(x) THEN x
  ELSE IF ~cd \/ Faulty(x)
  THEN Raise(Emit(Did(x), Ev("open", DATAPATH, IF ~cd THEN "absent" ELSE "ioerr")),
             "OSError")
  ELSE D2Write(D2Debug(to_influx_line(Opened(x, DATAPATH), sensor_type, timestamp,
                                      sample2)),
               x.line)

\* data2datafile, lines 430-443: no try
data2datafile(x, sensor_type, timestamp, sample1, sample2) ==
  D2Open(to_influx_line(x, sensor_type, timestamp, sample1), sensor_type, timestamp,
         sample2)

\* _handle_sensor, lines 509-519
_handle_sensor(x, sensor_type, sample1, sample2) ==
  data2datafile(x, sensor_type, now, sample1, sample2)

\* handle_dps310, lines 533-541
handle_dps310(flt, sample1, sample2) ==
  _handle_sensor(Emit(Begin(flt), Ev("step", "handle_dps310", "")),
                 DPS310, sample1, sample2)

\* handle_bno08x, lines 522-530
handle_bno08x(flt, sample1, sample2) ==
  _handle_sensor(Emit(Begin(flt), Ev("step", "handle_bno08x", "")),
                 BNO08X, sample1, sample2)

\* ------------------------------------------------------------- handle_sd
\* os.remove(path)
Remove(x, path) ==
  IF ~Ok(x) THEN x
  ELSE IF ~cd THEN Raise(Emit(Did(x), Ev("remove", path, "absent")), "OSError")
  ELSE IF Faulty(x) THEN Raise(Emit(Did(x), Ev("remove", path, "ioerr")), "OSError")
  ELSE IF ~x.files[path].exists
  THEN Raise(Emit(Did(x), Ev("remove", path, "enoent")), "FileNotFoundError")
  ELSE [Emit(Did(x), Ev("remove", path, "ok")) EXCEPT !.files[path] = NoFile]

\* a deletion pass without the except clause
RemoveCaught_nocatch(x, path) == x

\* `except FileNotFoundError`, lines 503-504
RemoveCaught(x, path) ==
  IF x.exc = "FileNotFoundError"
  THEN log(Catch(x), WARN, <<"File", path, "does not exist.">>)
  ELSE x

\* one round of `for path in delete_files`, lines 499-504
RemoveOne(x, path) ==
  RemoveCaught(Remove(log(x, DEBUG, <<"Removing file", path>>), path), path)

\* lines 488-492
delete_files == <<LOGPATH, ERRPATH, DATAPATH>>

RECURSIVE RemoveAll(_, _)
RemoveAll(x, paths) ==
  IF paths = <<>> \/ ~Ok(x) THEN x
  ELSE RemoveAll(RemoveOne(x, Head(paths)), Tail(paths))

\* an edge-triggered deletion: only the first read of a held signal counts
DelTriggered_edge == del /\ passes = 0

\* `if MICROSD_DEL_PIN.value:`, line 496
DelTriggered == del

\* none of the three files is on the card
AllAbsent(x) == \A p \in Paths : ~x.files[p].exists

\* a deletion pass that ends without its closing record
SdPass_nolog(x) ==
  RemoveAll(log(Emit(x, Ev("pass", IF AllAbsent(x) THEN "empty" ELSE "files", "")), INFO,
                <<"MICROSD_DEL pressed. Deleting all files.">>),
            delete_files)

\* handle_sd, lines 497-506: the deletion pass
SdPass(x) ==
  log(RemoveAll(log(Emit(x, Ev("pass", IF AllAbsent(x) THEN "empty" ELSE "files", "")), INFO,
                    <<"MICROSD_DEL pressed. Deleting all files.">>),
                delete_files),
      INFO, <<"File deletion completed.">>)

\* handle_sd, line 496
SdDel(x) ==
  IF ~Ok(x) THEN x
  ELSE IF DelTriggered
  THEN SdPass(Emit(x, Ev("del", "", IF del THEN "asserted" ELSE "released")))
  ELSE Emit(x, Ev("del", "", IF del THEN "asserted" ELSE "released"))

\* handle_sd, lines 493-494
SdCard(x) ==
  IF ~cd THEN log(Emit(x, Ev("cd", "", "absent")), ERROR, <<"No MicroSD card inserted.">>)
  ELSE Emit(x, Ev("cd", "", "present"))

\* handle_sd, lines 483-506
handle_sd(flt) == SdDel(SdCard(Emit(Begin(flt), Ev("step", "handle_sd", ""))))

\* ------------------------------------------------------- the HTTP server
Cn(k, a, e) == [k |-> k, a |-> a, e |-> e, l |-> NoLine]

\* request.connection.send(...)
Send(x, item) ==
  IF ~Ok(x) THEN x
  ELSE IF Faulty(x) THEN Raise(Emit(Did(x), Ev("send", item.k, "fail")), "OSError")
  ELSE [Emit(Did(x), Ev("send", item.k, "ok")) EXCEPT !.conn = Append(@, item)]

\* request.connection.close(): runs in the finally clause
Close(x) == [x EXCEPT !.conn = Append(@, Cn("close", "", ""))]

\* open(file_path, "rb")
OpenRead(x, path) ==
  IF ~cd THEN Raise(Emit(Did(x), Ev("open_rb", path, "absent")), "OSError")
  ELSE IF Faulty(x) THEN Raise(Emit(Did(x), Ev("open_rb", path, "ioerr")), "OSError")
  ELSE IF ~x.files[path].exists
  THEN Raise(Emit(Did(x), Ev("open_rb", path, "enoent")), "FileNotFoundError")
  ELSE Emit(Did(x), Ev("open_rb", path, "ok"))

\* the `while True` of handle_file_stream, lines 594-599: one chunk is one
\* line of the file; the read after the last chunk returns nothing
RECURSIVE Stream(_, _)
Stream(x, lines) ==
  IF ~Ok(x) THEN x
  ELSE IF lines = <<>> THEN Prim(x, "file.read", "OSError")
  ELSE Stream(Send(Prim(x, "file.read", "OSError"),
                   [Cn("chunk", "", "") EXCEPT !.l = Head(lines)]),
              Tail(lines))

\* the handlers without the finally clause
Respond500_nofinally(x, path) ==
  IF Ok(x) THEN x ELSE Send(Catch(x), Cn("500", path, x.exc))

\* `except Exception as e` and `finally` of the two handlers, lines 601-611
\* and 697-707
Respond500(x, path) ==
  IF Ok(x) THEN Close(x) ELSE Close(Send(Catch(x), Cn("500", path, x.exc)))

\* a download handler without the except clause: the finally clause alone
handle_file_stream_noexcept(x, path) ==
  Close(Stream(Send(OpenRead(x, path), Cn("200", path, "")), x.files[path].lines))

\* handle_file_stream, lines 576-611
handle_file_stream(x, path) ==
  Respond500(Stream(Send(OpenRead(x, path), Cn("200", path, "")), x.files[path].lines),
             "")

\* handle_file_delete, lines 677-707
handle_file_delete(x, path) ==
  Respond500(Send(log(Remove(x, path), INFO, <<"File", path, "deleted.">>),
                  Cn("200", path, "")),
             path)

\* webpage(), lines 614-638: os.listdir(_SD_ROOT)
webpage(x) ==
  IF ~Ok(x) THEN x
  ELSE IF ~cd THEN Raise(Emit(Did(x), Ev("os.listdir", "", "absent")), "OSError")
  ELSE Prim(x, "os.listdir", "OSError")

\* base, lines 652-662
base(x) == Send(webpage(log(x, DEBUG, <<"Serving main page">>)), Cn("200", "/", ""))

\* download_file, line 674
DownloadFrom(x, path) == IF Ok(x) THEN handle_file_stream(x, path) ELSE x

\* download_file, lines 665-674
download_file(x, path) ==
  DownloadFrom(log(x, DEBUG, <<"Requesting", path, "for download">>), path)

\* the files clients ask for
HttpFiles == {DATAPATH, LOGPATH}

NoRequest == [kind |-> "none", f |-> ""]
Requests ==
  {NoRequest, [kind |-> "index", f |-> ""]}
    \cup {[kind |-> k, f |-> p] : k \in {"download", "delete"}, p \in HttpFiles}

\* the route a pending request is dispatched to, lines 652, 665, 677
Dispatch(x, req) ==
  IF ~Ok(x) \/ req.kind = "none" THEN x
  ELSE IF req.kind = "index" THEN base(x)
  ELSE IF req.kind = "download" THEN download_file(x, req.f)
  ELSE handle_file_delete(x, req.f)

\* server.poll() on the socket, line 744: a server that was never started
\* raises
Polled(x) ==
  IF listening THEN Prim(x, "server.poll", "OSError")
  ELSE Raise(Emit(Did(x), Ev("server.poll", "", "stopped")), "ServerStoppedError")

\* server.poll(), line 744: at most one pending request is dispatched to its
\* route; an exception of the handler leaves poll()
server_poll(flt, req) == Dispatch(Polled(Emit(Begin(flt), Ev("step", "poll", ""))), req)

\* ------------------------------------------------------------- the tick
\* the two sensors polled in the other order
loop_swapped(step) ==
  IF step = "poll" THEN "handle_sd"
  ELSE IF step = "handle_sd" THEN "handle_bno08x"
  ELSE IF step = "handle_bno08x" THEN "handle_dps310"
  ELSE "tick_end"

\* loop, lines 720-724, after server.poll() of main, lines 744-745: the call
\* that follows each call
loop(step) ==
  IF step = "poll" THEN "handle_sd"
  ELSE IF step = "handle_sd" THEN "handle_dps310"
  ELSE IF step = "handle_dps310" THEN "handle_bno08x"
  ELSE "tick_end"

\* a loop without the try: an exception of the body leaves main()
main_notry(x, step) == IF Ok(x) THEN loop(step) ELSE "terminated"

\* a loop that goes on with the next call after an exception
main_resume(x, step) == loop(step)

\* main, lines 743-748: an exception of the tick's body goes to the except
\* clause
main_try(x, step) == IF Ok(x) THEN loop(step) ELSE "except"

\* the Error records a call logged
RECURSIVE ErrorRecords(_)
ErrorRecords(trace) ==
  IF trace = <<>> THEN 0
  ELSE (IF Head(trace).k = "log" /\ Head(trace).a = "ERROR" THEN 1 ELSE 0)
       + ErrorRecords(Tail(trace))

\* the measurements a call appended to the data file
RECURSIVE Written(_)
Written(trace) ==
  IF trace = <<>> THEN <<>>
  ELSE (IF Head(trace).k = "write" /\ Head(trace).a = DATAPATH /\ Head(trace).b = "ok"
        THEN <<Head(trace).l.m>> ELSE <<>>) \o Written(Tail(trace))

\* the state after the call `step` of the tick's body, which ran to x
AfterStep(x, step) ==
  /\ files' = x.files
  /\ ev' = x.ev
  /\ exc' = x.exc
  /\ injected' = IF FaultHit(x) THEN injected + 1 ELSE injected
  /\ steps' = Append(steps, step)
  /\ errs' = errs + ErrorRecords(x.ev)
  /\ appended' = appended \o Written(x.ev)
  /\ pc' = main_try(x, step)
  /\ fatal' = IF main_try(x, step) = "terminated" THEN x.exc ELSE "none"
  /\ mode' = IF main_try(x, step) = "terminated" THEN "Crashed" ELSE mode
  /\ UNCHANGED <<enc, pins, mounted, listening, inits, initPulls>>

\* server.poll(), line 744
Poll ==
  /\ pc = "poll"
  /\ ticks < MaxTicks
  /\ ticks' = ticks + 1
  /\ \E req \in Requests :
       \E flt \in 0..server_poll(0, req).n :
         /\ CanInject(flt)
         /\ AfterStep(server_poll(flt, req), "poll")
         /\ conn' = server_poll(flt, req).conn
  /\ UNCHANGED <<absentSeen, held, passes>>

\* handle_sd(), line 720
HandleSd ==
  /\ pc = "handle_sd"
  /\ \E flt \in 0..handle_sd(0).n :
       /\ CanInject(flt)
       /\ AfterStep(handle_sd(flt), "handle_sd")
       /\ absentSeen' = Has(handle_sd(flt).ev, "cd", "absent")
       /\ held' = IF Has(handle_sd(flt).ev, "del", "asserted") THEN held + 1 ELSE held
       /\ passes' = IF Has(handle_sd(flt).ev, "pass", "") THEN passes + 1 ELSE passes
  /\ conn' = <<>>
  /\ UNCHANGED ticks

\* handle_dps310(dps), line 723
HandleDps310 ==
  /\ pc = "handle_dps310"
  /\ \E s1 \in DpsSamples, s2 \in DpsSamples :
       \E flt \in 0..handle_dps310(0, s1, s2).n :
         /\ CanInject(flt)
         /\ AfterStep(handle_dps310(flt, s1, s2), "handle_dps310")
  /\ UNCHANGED <<conn, absentSeen, counts>>

\* handle_bno08x(bno), line 724
HandleBno08x ==
  /\ pc = "handle_bno08x"
  /\ \E s1 \in AccelOutcomes, s2 \in AccelOutcomes :
       \E flt \in 0..handle_bno08x(0, s1, s2).n :
         /\ CanInject(flt)
         /\ AfterStep(handle_bno08x(flt, s1, s2), "handle_bno08x")
  /\ UNCHANGED <<conn, absentSeen, counts>>

\* main, lines 747-748: the except clause logs; an exception of that log
\* call leaves main()
main_except(flt) ==
  log(Emit(Begin(flt), Ev("step", "except", "")), ERROR,
      <<"Unexpected Error occured in main function:", exc>>)

\* the state after the except clause, which ran to x
AfterExcept(x) ==
  /\ files' = x.files
  /\ ev' = x.ev
  /\ injected' = IF FaultHit(x) THEN injected + 1 ELSE injected
  /\ steps' = Append(steps, "except")
  /\ errs' = errs + ErrorRecords(x.ev)
  /\ fatal' = x.exc
  /\ pc' = IF Ok(x) THEN "tick_end" ELSE "terminated"
  /\ mode' = IF Ok(x) THEN mode ELSE "Crashed"

Except ==
  /\ pc = "except"
  /\ \E flt \in 0..main_except(0).n : CanInject(flt) /\ AfterExcept(main_except(flt))
  /\ conn' = <<>>
  /\ UNCHANGED <<enc, pins, mounted, listening, exc, appended, absentSeen, inits, counts,
                 initPulls>>

\* `while True`, line 741: the next iteration
LoopBack ==
  /\ pc = "tick_end"
  /\ pc' = "poll"
  /\ ev' = <<>>
  /\ conn' = <<>>
  /\ exc' = "none"
  /\ steps' = <<>>
  /\ errs' = 0
  /\ appended' = <<>>
  /\ absentSeen' = FALSE
  /\ UNCHANGED <<enc, mode, pins, files, mounted, listening, fatal, inits, counts,
                 injected, initPulls>>

\* ------------------------------------------------- the encoder on its own
\* a Python int, and a float given in hundredths
PyInt(n) == [kind |-> "int", n |-> n]
PyFloat(h) == [kind |-> "float", n |-> h]

\* str(value), as the f-string of line 241 formats it: an int in decimal, a
\* float in the shortest decimal that reads back, with at least one digit
\* after the point
Str(value) ==
  IF value.kind = "int" THEN ToString(value.n)
  ELSE ToString(value.n \div 100) \o "." \o
       (IF value.n % 100 = 0 THEN "0"
        ELSE IF value.n % 10 = 0 THEN ToString((value.n % 100) \div 10)
        ELSE IF value.n % 100 < 10 THEN "0" \o ToString(value.n % 100)
        ELSE ToString(value.n % 100))

\* ",".join(strs), line 244
RECURSIVE Join(_, _)
Join(sep, strs) ==
  IF strs = <<>> THEN ""
  ELSE IF Len(strs) = 1 THEN strs[1]
  ELSE strs[1] \o sep \o Join(sep, Tail(strs))

\* _field_substrings, lines 240-243: key=value per item, in the order in which
\* the mapping iterates
_field_substrings(items) ==
  [i \in 1..Len(items) |-> items[i][1] \o "=" \o Str(items[i][2])]

\* SensorData.to_influx_line, lines 238-246, as text
influx_text(sensor_type, items, timestamp) ==
  SensorType_get_name(sensor_type) \o " " \o Join(",", _field_substrings(items))
    \o " " \o ToString(timestamp)

\* the orders in which a dict with the entries of `data` can iterate: the
\* runtime (CircuitPython) keeps a plain dict as a hash table and iterates
\* over its slots, which need not be the order of insertion
Items(data) ==
  {[i \in 1..Len(data) |-> data[p[i]]] :
     p \in {q \in [1..Len(data) -> 1..Len(data)] :
              \A i, j \in 1..Len(data) : i # j => q[i] # q[j]}}

\* the keys of the mapping that get_data builds, in the order of the dict
\* display, lines 179-183 and 204-207
Declared(sensor_type) ==
  IF sensor_type = BNO08X THEN <<"accel_x", "accel_y", "accel_z">>
  ELSE <<"pressure", "temp">>

\* the values a driver returns, and the 0 of the fallback mapping
EncValues == {PyInt(0), PyFloat(5), PyFloat(2150), PyFloat(101325)}
EncTimes == {0, 120000}

\* what get_data can return for a variant, entries in declared order; and the
\* empty mapping of a variant without fields
Mappings(sensor_type) ==
  {[i \in 1..Len(Declared(sensor_type)) |-> <<Declared(sensor_type)[i], v[i]>>] :
     v \in [1..Len(Declared(sensor_type)) -> EncValues]} \cup {<<>>}

NoReading == [sensor_type |-> DPS310, data |-> <<>>, items |-> <<>>, timestamp |-> 0]

\* the SensorData objects the encoder is called on
ReadingsOf(sensor_type) ==
  UNION {{[sensor_type |-> sensor_type, data |-> d, items |-> it, timestamp |-> t] :
            it \in Items(d), t \in EncTimes} : d \in Mappings(sensor_type)}

Readings == ReadingsOf(BNO08X) \cup ReadingsOf(DPS310)

\* one call of to_influx_line
Encode ==
  /\ encOut = ""
  /\ encOut' = influx_text(encIn.sensor_type, encIn.items, encIn.timestamp)
  /\ UNCHANGED <<prog, encIn>>

\* ------------------------------------------------------ the specification
OldLog(lvl) == <<[lvl |-> lvl, eol |-> CRLF]>>
OldData == <<[m |-> "dps310", f |-> <<<<"pressure", 1000>>, <<"temp", 20>>>>, t |-> 0,
              eol |-> CRLF]>>

\* the card of an earlier run
UsedCard ==
  [p \in Paths |->
     [exists |-> TRUE,
      lines |-> IF p = LOGPATH THEN OldLog("INFO")
                ELSE IF p = ERRPATH THEN OldLog("ERROR") ELSE OldData]]

\* main() is entered
Boot ==
  /\ pc = "init_spi"
  /\ mode = "Initializing"
  /\ cd \in BOOLEAN
  /\ del = FALSE
  /\ UART = TRUE
  /\ now = 0
  /\ files = UsedCard
  /\ ev = <<>>
  /\ exc = "none"
  /\ fatal = "none"
  /\ injected = 0
  /\ conn = <<>>
  /\ inits = <<>>
  /\ steps = <<>>
  /\ errs = 0
  /\ appended = <<>>
  /\ absentSeen = FALSE
  /\ ticks = 0
  /\ mounted = FALSE
  /\ listening = FALSE
  /\ held = 0
  /\ passes = 0
  /\ initPulls = 0

Init == Boot /\ encIn = NoReading /\ encOut = ""

Next ==
  \/ CardToggle \/ DelToggle \/ Advance
  \/ InitSpi \/ InitMicrosd \/ WaitCard \/ InitAccessPoint \/ InitI2c
  \/ InitBno08x \/ InitDps310 \/ InitWebserver \/ ServerStart
  \/ Poll \/ HandleSd \/ HandleDps310 \/ HandleBno08x \/ Except \/ LoopBack

Spec == Init /\ [][Next]_vars

\* the encoder applied to every reading
EncInit == Boot /\ cd /\ encIn \in Readings /\ encOut = ""

EncNext == Encode

EncSpec == EncInit /\ [][EncNext]_vars

\* The interpreter keeps running main(): a statement of the initialization
\* that can run does run.  The loop of line 408 reads the pin again and
\* again, so it is left when the pin stays asserted.
LiveSpec ==
  Spec /\ WF_vars(InitSpi) /\ WF_vars(InitMicrosd) /\ WF_vars(WaitCard)

\* ------------------------------------------------------------ properties
Last(s) == s[Len(s)]

TickOrder == <<"poll", "handle_sd", "handle_dps310", "handle_bno08x">>

IsLogFile(path) == path \in {LOGPATH, ERRPATH}

\* the log call that the event i of the trace belongs to
LogOf(trace, i) ==
  {j \in 1..(i - 1) : trace[j].k = "log" /\ \A m \in (j + 1)..(i - 1) : trace[m].k # "log"}

C2_NoWriteWhileAbsent ==
  mode = "Serving" => \A i \in 1..Len(ev) : ~(ev[i].k = "open" /\ ev[i].b = "absent")

\* C3: a tick that ran with the card absent, with the delete signal released
\* and with no other fault, logged exactly one Error record.
C3_OneErrorPerAbsentTick ==
  (pc = "tick_end" /\ absentSeen /\ ~del /\ injected = 0) => errs = 1

\* C4: when the append of the pressure/temperature line fails, the failure
\* stays inside the append and the inertial sensor is polled next.
C4_AppendFailureContained ==
  (steps # <<>> /\ Last(steps) = "handle_dps310"
     /\ \E i \in 1..Len(ev) :
          /\ ev[i].k \in {"open", "write"} /\ ev[i].a = DATAPATH
          /\ ev[i].b \in {"absent", "ioerr"})
    => pc = "handle_bno08x"

\* C5: get_data never raises to its caller.
C5_ReadNeverRaises ==
  \A i \in 1..Len(ev) : ~(ev[i].k = "get_data" /\ ev[i].b = "raised")

\* C6: log returns normally whatever sink fails.
C6_LogReturnsNormally == \A i \in 1..Len(ev) : ev[i].k # "log raised"

\* C7: a Debug record opens no log file; an Info or Warn record opens only the
\* run log and an Error record only the error log; every write to a log file
\* is the one write between an open and a close of that file, the close
\* following the write also when the write fails; the run log
\* holds Info and Warn lines only and the error log Error lines only.
C7_LogRouting ==
  /\ \A i \in 1..Len(ev) :
       (ev[i].k = "open" /\ IsLogFile(ev[i].a)) =>
         /\ LogOf(ev, i) # {}
         /\ \A j \in LogOf(ev, i) :
              /\ ev[j].a \in {"INFO", "WARN", "ERROR"}
              /\ ev[j].a = "ERROR" <=> ev[i].a = ERRPATH
  /\ \A i \in 1..Len(ev) :
       (ev[i].k = "write" /\ IsLogFile(ev[i].a)) =>
         /\ i > 1 /\ ev[i - 1].k = "open" /\ ev[i - 1].a = ev[i].a /\ ev[i - 1].b = "ok"
         /\ \E c \in {i + 1, i + 2} :
              /\ c <= Len(ev) /\ ev[c].k = "close" /\ ev[c].a = ev[i].a
              /\ c = i + 2 => (ev[i].b = "ioerr" /\ ev[i + 1].k = "raise")
  /\ \A n \in 1..Len(files[LOGPATH].lines) : files[LOGPATH].lines[n].lvl \in {"INFO", "WARN"}
  /\ \A n \in 1..Len(files[ERRPATH].lines) : files[ERRPATH].lines[n].lvl = "ERROR"

\* C7 witness: one call logged an Error record, appended to the error log, and
\* a Debug record, and both log files hold lines of this run.
C7_Witness ==
  /\ \E i \in 1..Len(ev) : ev[i].k = "write" /\ ev[i].a = ERRPATH /\ ev[i].b = "ok"
  /\ \E i \in 1..Len(ev) : ev[i].k = "log" /\ ev[i].a = "DEBUG"
  /\ Len(files[ERRPATH].lines) > 1
  /\ Len(files[LOGPATH].lines) > 1

\* C8 as stated: while the delete signal stays asserted, the deletion pass
\* runs in the first tick only.
C8_OncePerEdge == passes <= 1

\* C8 as the code has it: the deletion pass is level-triggered; it runs in
\* every tick whose handle_sd reads the delete signal asserted.
C8_LevelTriggered == passes = held

\* C8 witness: the signal was held over two ticks and the pass ran in both.
C8_Witness == del /\ held = 2 /\ passes = 2

\* C9: in a deletion pass a missing file raises FileNotFoundError, which is
\* caught at once and answered by a Warn record naming the file; the pass
\* logs no Error record and never raises FileNotFoundError; a pass that ends
\* without another failure has attempted the removal of the three files in
\* the order run log, error log, data log.
C9_IdempotentPass ==
  (steps # <<>> /\ Last(steps) = "handle_sd"
     /\ \E p \in 1..Len(ev) : ev[p].k = "pass")
    =>
    /\ exc # "FileNotFoundError"
    /\ \A i \in 1..Len(ev) :
         (ev[i].k = "remove" /\ ev[i].b = "enoent") =>
           /\ Len(ev) >= i + 2
           /\ ev[i + 1].k = "raise" /\ ev[i + 1].a = "FileNotFoundError"
           /\ ev[i + 2].k = "log" /\ ev[i + 2].a = "WARN"
           /\ ev[i + 2].msg = <<"File", ev[i].a, "does not exist.">>
    /\ \A p \in 1..Len(ev) : \A i \in p..Len(ev) :
         ev[p].k = "pass" => ~(ev[i].k = "log" /\ ev[i].a = "ERROR")
    /\ exc = "none" =>
         /\ Cardinality({i \in 1..Len(ev) : ev[i].k = "remove"}) = 3
         /\ \A i, j \in 1..Len(ev) :
              (ev[i].k = "remove" /\ ev[j].k = "remove" /\ i < j) =>
                \E a, b \in 1..3 :
                  a < b /\ ev[i].a = delete_files[a] /\ ev[j].a = delete_files[b]

\* C9 witness: a pass that started with none of the three files on the card
\* has completed without raising, with two not-found notices.
C9_Witness ==
  /\ pc = "handle_dps310" /\ Last(steps) = "handle_sd" /\ exc = "none"
  /\ \E p \in 1..Len(ev) : ev[p].k = "pass" /\ ev[p].a = "empty"
  /\ Cardinality({i \in 1..Len(ev) : ev[i].k = "remove" /\ ev[i].b = "enoent"}) = 2

\* C10: the calls of a tick run in the order server.poll, handle_sd,
\* handle_dps310, handle_bno08x, the except clause coming last if at all;
\* handle_sd reads the card signal before the delete signal; a tick appends
\* at most one dps310 line and after it at most one bno08x line, and each
\* sensor call opens the data file at most once.
C10_TickOrder ==
  /\ \E n \in 0..4 :
       \/ steps = SubSeq(TickOrder, 1, n)
       \/ steps = SubSeq(TickOrder, 1, n) \o <<"except">>
  /\ appended \in {<<>>, <<"dps310">>, <<"dps310", "bno08x">>}
  /\ \A i, j \in 1..Len(ev) : (ev[i].k = "cd" /\ ev[j].k = "del") => i < j
  /\ Cardinality({i \in 1..Len(ev) : ev[i].k = "open" /\ ev[i].a = DATAPATH}) <= 1

\* C10 witness: a whole tick has run and appended both lines.
C10_Witness ==
  /\ pc = "tick_end" /\ steps = TickOrder
  /\ appended = <<"dps310", "bno08x">>

\* the initialization calls of _init_peripherals and main, lines 554-571 and
\* 730-735, in program order
InitOrder ==
  <<"init_spi", "init_microsd", "init_access_point", "init_i2c", "init_bno08x",
    "init_dps310", "init_webserver", "server_start">>

\* C11: Serving is entered only after storage bus setup, storage mount,
\* access-point start, sensor bus and sensor initialization and the HTTP
\* listener bind have each completed, in this order.
C11_InitOrder ==
  mode = "Serving" => (inits = InitOrder /\ mounted /\ listening)

\* C12: no tick is executed unless the storage was mounted and the HTTP
\* listener bind succeeded.
C12_FatalInitHalts == ticks > 0 => (mounted /\ listening)

\* C13: a delete request whose os.remove succeeded is answered, when every
\* send on the connection succeeds, by the 200 confirmation and no 500
\* response, and the connection is closed.
C13_DeleteResponse ==
  (steps # <<>> /\ Last(steps) = "poll"
     /\ (\E i \in 1..Len(ev) : ev[i].k = "remove" /\ ev[i].b = "ok")
     /\ \A i \in 1..Len(ev) : ~(ev[i].k = "send" /\ ev[i].b = "fail"))
    =>
    /\ \E j \in 1..Len(conn) : conn[j].k = "200"
    /\ \A j \in 1..Len(conn) : conn[j].k # "500"
    /\ conn # <<>> /\ Last(conn).k = "close"

\* the chunks sent on the connection, in the order sent
RECURSIVE Chunks(_)
Chunks(c) ==
  IF c = <<>> THEN <<>>
  ELSE (IF Head(c).k = "chunk" THEN <<Head(c).l>> ELSE <<>>) \o Chunks(Tail(c))

\* the event of open(file_path, "rb") in the trace of a download
OpenRb(trace) == {i \in 1..Len(trace) : trace[i].k = "open_rb"}

\* C14: after handle_file_stream the connection is closed, whatever happened;
\* when the open failed no 200 header was sent, and the 500 response, if its
\* send succeeded, carries the error; a download that ended without an
\* exception sent the 200 header, then the file's chunks in file order, then
\* nothing but the close.
C14_DownloadResponse ==
  \A i \in OpenRb(ev) :
    /\ steps # <<>> /\ Last(steps) = "poll"
    /\ conn # <<>> /\ Last(conn).k = "close"
    /\ \A j \in 1..(Len(conn) - 1) : conn[j].k # "close"
    /\ ev[i].b # "ok" =>
         /\ \A j \in 1..Len(conn) : conn[j].k \notin {"200", "chunk"}
         /\ \/ /\ Len(conn) = 2 /\ conn[1].k = "500"
               /\ conn[1].e \in {"OSError", "FileNotFoundError"}
            \/ /\ Len(conn) = 1
               /\ \E k \in 1..Len(ev) : ev[k].k = "send" /\ ev[k].a = "500" /\ ev[k].b = "fail"
    /\ (ev[i].b = "ok" /\ exc = "none"
          /\ \A k \in 1..Len(ev) : ev[k].b \notin {"fail", "ioerr"}) =>
         /\ conn[1].k = "200" /\ conn[1].a = ev[i].a
         /\ Chunks(conn) = files[ev[i].a].lines
         /\ Len(conn) = Len(files[ev[i].a].lines) + 2

\* C14 witness: a download streamed a file of at least one chunk to the end.
C14_Witness ==
  /\ pc = "handle_sd" /\ exc = "none"
  /\ \E i \in OpenRb(ev) : ev[i].b = "ok" /\ Len(files[ev[i].a].lines) >= 1
  /\ Len(conn) >= 3 /\ conn[1].k = "200" /\ conn[2].k = "chunk" /\ Last(conn).k = "close"

\* C15: the data file is append-only.  Every step leaves its lines as they are
\* (an open for append whose write did not happen may create it empty), or
\* adds exactly one line at the end, terminated by CRLF and stamped with the
\* clock, or removes the whole file; and the clock never goes back, so the
\* timestamps of the lines appended in a run are non-decreasing.
C15_AppendOnly ==
  [][/\ now' >= now
     /\ \/ /\ files'[DATAPATH].lines = files[DATAPATH].lines
           /\ files[DATAPATH].exists => files'[DATAPATH].exists
        \/ /\ files'[DATAPATH].exists
           /\ Len(files'[DATAPATH].lines) = Len(files[DATAPATH].lines) + 1
           /\ SubSeq(files'[DATAPATH].lines, 1, Len(files[DATAPATH].lines))
                = files[DATAPATH].lines
           /\ Last(files'[DATAPATH].lines).eol = CRLF
           /\ Last(files'[DATAPATH].lines).t = now
           /\ pc \in {"handle_dps310", "handle_bno08x"}
        \/ /\ files'[DATAPATH] = NoFile
           /\ pc \in {"poll", "handle_sd"}]_vars

\* C15 witness: the data file holds the line of the earlier run and, after it,
\* lines appended in two ticks of this run, the last one with a later
\* timestamp.
C15_Witness ==
  /\ ticks = 2
  /\ Len(files[DATAPATH].lines) >= 4
  /\ Last(files[DATAPATH].lines).t > files[DATAPATH].lines[1].t

\* C16: the two calls of to_influx_line that data2datafile makes on one
\* SensorData give the same line: the line of the Debug record is the line
\* written to the data file.
C16_EncoderDeterministic ==
  \A i, j \in 1..Len(ev) :
    (/\ ev[i].k = "log" /\ ev[i].l # NoLine
     /\ ev[j].k = "write" /\ ev[j].a = DATAPATH /\ ev[j].b = "ok")
      => ev[i].l = [ev[j].l EXCEPT !.eol = ""]

\* the reads of the driver property `what` in a trace
Reads(trace, what) == {i \in 1..Len(trace) : trace[i].k = what}

\* C18: per sensor and per tick the driver is read exactly once: a sensor call
\* that appended its line has read each driver property once.
C18_ReadOnce ==
  (\E j \in 1..Len(ev) : ev[j].k = "write" /\ ev[j].a = DATAPATH /\ ev[j].b = "ok")
    =>
    /\ Cardinality(Reads(ev, "bno08x.acceleration")) <= 1
    /\ Cardinality(Reads(ev, "dps310.pressure")) <= 1
    /\ Cardinality(Reads(ev, "dps310.temperature")) <= 1

\* C17: the encoder output is the measurement name, one space, the fields as
\* key=value in the variant's declared order joined by commas, one space and
\* the timestamp, without a newline; an empty mapping gives the name, two
\* spaces and the timestamp; pressure 1013.25, temperature 21.5 at 120000
\* give 'dps310 pressure=1013.25,temp=21.5 120000'.
C17_EncoderFormat ==
  encOut # "" =>
    /\ encOut = influx_text(encIn.sensor_type, encIn.data, encIn.timestamp)
    /\ encIn.data = <<>> =>
         encOut = SensorType_get_name(encIn.sensor_type) \o "  "
                    \o ToString(encIn.timestamp)
    /\ (/\ encIn.sensor_type = DPS310 /\ encIn.timestamp = 120000
        /\ encIn.data = <<<<"pressure", PyFloat(101325)>>, <<"temp", PyFloat(2150)>>>>)
         => encOut = "dps310 pressure=1013.25,temp=21.5 120000"

MountCalls == {"adafruit_sdcard.SDCard", "storage.VfsFat", "storage.mount"}

MountAttempts(trace) == {i \in 1..Len(trace) : trace[i].k \in MountCalls}

BeforeMount == {"init_spi", "init_microsd", "wait_card"}

PassCompleted ==
  /\ ev # <<>>
  /\ ev[1] = Ev("step", "handle_sd", "")
  /\ Has(ev, "cd", "present")
  /\ \E i \in 1..Len(ev) : ev[i].k = "pass"
  /\ exc = "none"
  /\ \A i \in 1..Len(ev) : ev[i].b \notin {"ioerr", "absent", "fail"}

NotFound(trace) == {i \in 1..Len(trace) : trace[i].k = "remove" /\ trace[i].b = "enoent"}

RemovedLog(trace) ==
  \E i \in 1..Len(trace) : trace[i] = Ev("remove", LOGPATH, "ok")

\* C20: after a deletion pass that completes on a present, writable card
\* the run log exists and ends with the Info record that closes the pass;
\* when the pass removed the run log, the new run log holds one Warn record
\* per file the pass did not find and that Info record, and nothing else.
C20_LogRecreated ==
  PassCompleted =>
    /\ files[LOGPATH].exists
    /\ files[LOGPATH].lines # <<>>
    /\ Last(files[LOGPATH].lines).lvl = "INFO"
    /\ RemovedLog(ev) =>
         /\ Len(files[LOGPATH].lines) = Cardinality(NotFound(ev)) + 1
         /\ \A i \in 1..Cardinality(NotFound(ev)) : files[LOGPATH].lines[i].lvl = "WARN"

\* a pass removed all three files and the run log is there again
C20_Witness ==
  /\ PassCompleted
  /\ \A p \in Paths : \E i \in 1..Len(ev) : ev[i] = Ev("remove", p, "ok")
  /\ files[LOGPATH].exists
  /\ ~files[ERRPATH].exists
  /\ ~files[DATAPATH].exists

\* a pass removed the run log, did not find another file, and the run log
\* holds the Warn record and the Info record
C20_WitnessWarn ==
  /\ PassCompleted
  /\ RemovedLog(ev)
  /\ NotFound(ev) # {}
  /\ Len(files[LOGPATH].lines) >= 2

\* the calls of the tick's body that were made, the except clause left out
Body(called) == SelectSeq(called, LAMBDA c : c # "except")

\* the os.remove calls of a trace that raised something else than
\* FileNotFoundError
RemoveFailed(trace) ==
  {i \in 1..Len(trace) : trace[i].k = "remove" /\ trace[i].b \in {"ioerr", "absent"}}

\* C21: when a call of the tick's body raises, no later call of that tick is
\* made: only the except clause follows.  When server.poll() or handle_sd()
\* raised, neither sensor was polled and no line was appended to the data
\* file in the tick.  A deletion pass in which os.remove raises something
\* else than FileNotFoundError leaves handle_sd there: no further file is
\* removed and the closing record is not logged.
C21_AllOrPrefix ==
  /\ exc # "none" =>
       /\ pc \in {"except", "tick_end", "terminated"}
       /\ Body(steps) # <<>>
       /\ Body(steps) = SubSeq(TickOrder, 1, Len(Body(steps)))
       /\ Len(steps) <= Len(Body(steps)) + 1
       /\ Last(Body(steps)) \in {"poll", "handle_sd"} =>
            /\ appended = <<>>
            /\ \A i \in 1..Len(steps) : steps[i] \notin {"handle_dps310", "handle_bno08x"}
  /\ (pc \in {"handle_dps310", "handle_bno08x"}) => exc = "none"
  /\ \A i \in RemoveFailed(ev) :
       ev[1] = Ev("step", "handle_sd", "") =>
         /\ pc = "except" /\ exc = "OSError" /\ Last(steps) = "handle_sd"
         /\ \A j \in (i + 1)..Len(ev) : ev[j].k = "raise"

\* C21 witness: the deletion pass raised at its first file with the card
\* present; the two other files are still there and the tick goes to the
\* except clause with no sensor polled.
C21_Witness ==
  /\ pc = "except" /\ steps = <<"poll", "handle_sd">>
  /\ exc = "OSError"
  /\ \E i \in RemoveFailed(ev) : ev[i].a = LOGPATH /\ ev[i].b = "ioerr"
  /\ files[ERRPATH].exists /\ files[DATAPATH].exists
  /\ appended = <<>>

\* the status lines sent on the connection
StatusLines(c) == {j \in 1..Len(c) : c[j].k \in {"200", "500"}}

\* the handler called send with `what`, and the call ended `how`
Sent(trace, what, how) == \E k \in 1..Len(trace) : trace[k] = Ev("send", what, how)

\* a read of the file or the send of a chunk failed
MidFail(trace) ==
  \E k \in 1..Len(trace) :
    \/ trace[k] = Ev("file.read", "", "fail")
    \/ trace[k] = Ev("send", "chunk", "fail")

\* no call of the handler failed
NoFail(trace) ==
  \A k \in 1..Len(trace) : trace[k].b \notin {"fail", "ioerr", "absent", "enoent"}

====
